---- MODULE Spec2Model ----
(***************************************************************************)
(* Recipe enrichment pipeline: content cache (core/cache.py), enrichment   *)
(* record schema (core/models.py) and the retrying orchestrator            *)
(* (core/enricher.py).                                                     *)
(***************************************************************************)
EXTENDS Integers, Sequences, FiniteSets, TLC

VARIABLES
    MODEL_TYPE,   \* config.MODEL_TYPE, the selected provider/model
    files,        \* cache directory: cache key -> backing file
    enrichment,   \* recipe id -> attached RecipeEnrichment (recipe.enrichment)
    pc,           \* position of the enrich call: idle / running / returned / raised
    cur,          \* recipe id the running (or last) enrich call works on
    attempt,      \* attempts of the current call made so far (tenacity attempt_number)
    provider,     \* the provider stub: answers `first` on its first k invocations, `then` after
    callProv,     \* provider invocations made by the current call
    callSets,     \* cache.set invocations made by the current call
    callHits,     \* attempts of the current call whose cache lookup was a hit
    lastWrite,    \* cache.set of the latest attempt: "none" (not called), "ok" or "failed"
    allNotJson,   \* every provider answer consumed by the current call was non-JSON text
    startEmpty,   \* the cache directory held no file when the current call started
    lastHit,      \* the latest attempt of the current call took the cache-hit branch
    lastErr,      \* exception raised by the latest attempt ("None" when it returned)
    surfaced,     \* exception that reached the caller of the current call
    totalProv,    \* provider invocations since start
    nCalls,       \* enrich calls started
    nDirect,      \* direct cache operations performed
    prev,         \* outcome of the enrich call that finished before the current one
    stored,       \* cache key -> payload of the latest direct cache.set on it, when it succeeded
    got,          \* key and result of a direct cache.get, while it is the latest cache operation
    keyIn,        \* inputs of the latest key computation: <<recipe a, model a, recipe b, model b>>
    keyOut,       \* the two keys computed from keyIn
    lastFile,     \* state of the backing file the latest attempt's cache lookup found
    repIn,        \* the parsed provider payload, recipe id and write outcome of a lone attempt
    repOut,       \* what that attempt did: repaired payload, record attached or exception
    recipes,      \* enrich_recipes: the input list (recipe ids)
    batchPc,      \* enrich_recipes: "idle", "loop" (inside the for loop) or "done" (returned)
    batchPos,     \* enrich_recipes: recipes of the input the loop is done with
    enriched_recipes, \* enrich_recipes: the list it builds and returns
    attempted,    \* enrich_recipes: the recipes it called _enrich_single_recipe for, in order
    outcomes,     \* enrich_recipes: for each finished call, whether it returned
    tokens,       \* config: model type -> whether its API token is set
    adapter,      \* the enricher object in use: its model type, or "none" before construction
    created,      \* create_enricher(): "no" (not called), "yes" (constructed) or "raised"
    waits,        \* the sleeps tenacity made between the attempts of the current call, in seconds
    clearState,   \* cache.clear(): "never", "ok" / "failed" (its latest return, no set since),
                  \* or "okThenSet" (a set followed a successful clear)
    clearedKeys,  \* keys that held a decodable entry when the latest successful clear ran
    saveCall,     \* save_enriched_recipes: the list it was given (recipe ids), whether it raised
    saved,        \* save_enriched_recipes: the output file
    writers,      \* concurrent cache.set calls on one key: each writer's position and payload
    raceFile,     \* the file the concurrent writers share: its key, its length, the last writer
    gemIn,        \* Gemini adapter: the backend outcome of the latest _call_llm_api
    gemOut,       \* Gemini adapter: what _call_llm_api did: raised, or the string returned
    ctorIn,       \* Recipe(...): the arguments of the latest construction
    ctorOut       \* Recipe(...): raised, or the ingredients and instructions of the object

vars == <<MODEL_TYPE, files, enrichment, pc, cur, attempt, provider, callProv,
          callSets, callHits, lastWrite, allNotJson, startEmpty, lastHit,
          lastErr, surfaced, totalProv, nCalls, nDirect, prev, stored,
          got, keyIn, keyOut, lastFile, repIn, repOut, recipes, batchPc, batchPos,
          enriched_recipes, attempted, outcomes, tokens, adapter, created, waits, clearState,
          clearedKeys, saveCall, saved, writers, raceFile, gemIn, gemOut, ctorIn, ctorOut>>

-----------------------------------------------------------------------------
(* Bounds of the model *)

\* enrich calls started in one behaviour
MaxCalls == 2

\* direct cache operations (get / set / clear by a caller other than the orchestrator)
MaxDirect == 3

\* length of the list handed to enrich_recipes
MaxBatch == 2
MaxText == 4
MaxLines == 2

-----------------------------------------------------------------------------
(* Configuration *)

\* Config.MAX_RETRIES
MAX_RETRIES == 3

\* Config.RETRY_DELAY
RETRY_DELAY == 1

\* ModelType enum values (the model identifier strings), as character sequences
ModelTypeValue ==
    [GPT4 |-> <<"g", "4">>, CLAUDE |-> <<"c", "3">>, GEMINI |-> <<"g", "m">>]

ModelTypes == DOMAIN ModelTypeValue

-----------------------------------------------------------------------------
(* Recipe (core/models.py) *)

\* None of an Optional[str] field
Null == "null"

\* A Recipe object from its content-bearing fields and a record of its other fields;
\* an absent Optional list is the empty sequence and an absent image the empty string
\* (the code tests these fields for truth only)
MkRecipe(title, text, ingredients, instructions, other) ==
    [title |-> title, text |-> text, ingredients |-> ingredients,
     instructions |-> instructions, url |-> other.url, top_image |-> other.top_image,
     meta_img |-> other.meta_img, images |-> other.images, movies |-> other.movies,
     categories |-> other.categories, summary |-> other.summary]

\* two settings of the fields outside the cache key
OtherFields ==
    <<[url |-> "u1", top_image |-> "", meta_img |-> "", images |-> <<"im1", "im2">>,
       movies |-> <<>>, categories |-> <<"c1">>, summary |-> Null],
      [url |-> "u2", top_image |-> "top", meta_img |-> "meta", images |-> <<>>,
       movies |-> <<"mv1">>, categories |-> <<>>, summary |-> "sum"]>>

\* The recipes the batch loader hands to the orchestrator, by id.
\* 1 and 2 agree on title, ingredients, instructions and text and differ elsewhere;
\* 3 differs from 1 only by a title character that sanitization maps to '_'.
RecipePool ==
    <<MkRecipe(<<"a", " ", "b">>, "t1", <<"i1">>, <<"s1">>, OtherFields[1]),
      MkRecipe(<<"a", " ", "b">>, "t1", <<"i1">>, <<"s1">>, OtherFields[2]),
      MkRecipe(<<"a", "/", "b">>, "t1", <<"i1">>, <<"s1">>, OtherFields[1])>>

RecipeIds == DOMAIN RecipePool

-----------------------------------------------------------------------------
(* Content cache (core/cache.py) *)

\* Domains of the four content-bearing fields, in a fixed enumeration order
TitleDomain == << <<"a", " ", "b">>, <<"a", "/", "b">>, <<"a", "_", "b">> >>
ListDomain == << <<"i1">>, <<"s1">>, <<>> >>
TextDomain == <<"t1", "t2">>

HexDigits == <<"0", "1", "2", "3", "4", "5", "6", "7", "8", "9", "a", "b", "c", "d", "e", "f">>

IndexOf(seq, x) == CHOOSE i \in DOMAIN seq : seq[i] = x

\* json.dumps({"title":..,"ingredients":..,"instructions":..,"text":..}, sort_keys=True):
\* the four values in key order; nothing else of the recipe is serialized
ContentJson(recipe) ==
    <<recipe.ingredients, recipe.instructions, recipe.text, recipe.title>>

\* hashlib.md5(..).hexdigest(): a fixed-width hex string, taken collision-free
\* (one hex digit per serialized component)
Md5Hex(json) ==
    <<HexDigits[IndexOf(ListDomain, json[1])], HexDigits[IndexOf(ListDomain, json[2])],
      HexDigits[IndexOf(TextDomain, json[3])], HexDigits[IndexOf(TitleDomain, json[4])]>>

\* characters the key.replace(.., "_") chain rewrites
ForbiddenChars == {" ", "/", "\\", ":", "*", "?", "\"", "<", ">", "|"}

Sanitize(key) == [i \in DOMAIN key |-> IF key[i] \in ForbiddenChars THEN "_" ELSE key[i]]

\* mutant: the content digest left out of the key
GenerateCacheKey_NoDigest(recipe, model_type) ==
    Sanitize(recipe.title \o <<"_">> \o ModelTypeValue[model_type])

\* mutant: the recipe url serialized into the key as well
GenerateCacheKey_WithUrl(recipe, model_type) ==
    Sanitize(recipe.title \o <<"_">> \o Md5Hex(ContentJson(recipe)) \o <<"_", recipe.url, "_">>
             \o ModelTypeValue[model_type])

\* RecipeCache._generate_cache_key
GenerateCacheKey(recipe, model_type) ==
    Sanitize(recipe.title \o <<"_">> \o Md5Hex(ContentJson(recipe)) \o <<"_">>
             \o ModelTypeValue[model_type])

\* every cache file name the pool's recipes can produce
AllKeys == {GenerateCacheKey(RecipePool[i], m) : i \in RecipeIds, m \in ModelTypes}

\* json.dump(enrichment_data, f): the object's members written out
JsonDump(data) == {<<k, data[k]>> : k \in DOMAIN data}

\* json.load(f): the object rebuilt from the members of the text
JsonLoad(text) == [k \in {m[1] : m \in text} |-> (CHOOSE m \in text : m[1] = k)[2]]

\* a backing file: missing, complete JSON text, text cut short by a failed write,
\* or a file that open() refuses to read
NoFile == [st |-> "absent", text |-> {}]
JsonFile(data) == [st |-> "json", text |-> JsonDump(data)]
PartialFile == [st |-> "partial", text |-> {}]
UnreadableFile == [st |-> "unreadable", text |-> {}]

EmptyDict == [k \in {} |-> Null]

\* what cache.get hands back: None, or the decoded payload
NoneResult == [found |-> FALSE, data |-> EmptyDict]
Found(data) == [found |-> TRUE, data |-> data]

\* mutant: the swallowed exception handed back as an error object instead of None
CacheGet_ReturnsErrorDict(fs, recipe, model_type) ==
    LET f == fs[GenerateCacheKey(recipe, model_type)]
    IN  IF f.st = "json" THEN Found(JsonLoad(f.text))
        ELSE IF f.st = "absent" THEN NoneResult
        ELSE Found([error |-> "unreadable"])

\* RecipeCache.get: missing file -> None; unreadable or undecodable file -> exception
\* swallowed -> None
CacheGet(fs, recipe, model_type) ==
    LET f == fs[GenerateCacheKey(recipe, model_type)]
    IN  IF f.st = "json" THEN Found(JsonLoad(f.text)) ELSE NoneResult

\* outcomes of the write in cache.set: done, open() refused, dump broke off midway
IoOutcomes == {"ok", "openfail", "dumpfail"}

\* the outcomes the orchestrator's writes are explored with: it writes only after a miss,
\* where a refused open() and a broken dump both leave a file that reads as a miss
AttemptIo == {"ok", "dumpfail"}

\* mutant: a write that broke off midway reported as stored
CacheSet_ReportsSuccess(fs, recipe, model_type, data, io) ==
    LET key == GenerateCacheKey(recipe, model_type)
    IN  CASE io = "ok" -> [files |-> [fs EXCEPT ![key] = JsonFile(data)], ret |-> TRUE]
          [] io = "openfail" -> [files |-> fs, ret |-> FALSE]
          [] OTHER -> [files |-> [fs EXCEPT ![key] = PartialFile], ret |-> TRUE]

\* RecipeCache.set: files after the call and the value returned
CacheSet(fs, recipe, model_type, data, io) ==
    LET key == GenerateCacheKey(recipe, model_type)
    IN  CASE io = "ok" -> [files |-> [fs EXCEPT ![key] = JsonFile(data)], ret |-> TRUE]
          [] io = "openfail" -> [files |-> fs, ret |-> FALSE]
          [] OTHER -> [files |-> [fs EXCEPT ![key] = PartialFile], ret |-> FALSE]

\* the *.json files of the cache directory
CacheFiles(fs) == {k \in DOMAIN fs : fs[k] # NoFile}

\* RecipeCache.clear, mutated: reports success without unlinking anything
CacheClear_UnlinksNothing(fs, kept) == [files |-> fs, ret |-> kept = {}]

\* RecipeCache.clear: unlinks every *.json file and returns True; when an unlink
\* raises, the files not yet unlinked (kept, not empty) stay and it returns False
CacheClear(fs, kept) == [files |-> [k \in DOMAIN fs |-> IF k \in kept THEN fs[k] ELSE NoFile], ret |-> kept = {}]

-----------------------------------------------------------------------------
(* Enrichment record schema (core/models.py, RecipeEnrichment) *)

HealthinessVocab == {"Very Healthy", "Healthy", "Moderate", "Unhealthy", "Very Unhealthy"}
EaseVocab == {"Very Easy", "Easy", "Moderate", "Difficult", "Very Difficult"}
AvailabilityVocab == {"Very High", "High", "Moderate", "Low", "Very Low"}
ProteinVocab == {"High", "Medium", "Low"}

\* fields declared with Field(...): no default
SchemaRequired ==
    {"title", "generated_summary", "ingredients", "instructions", "healthiness_score",
     "ease_of_cooking_score", "indian_ingredient_availability_score", "prep_time_minutes",
     "prep_time_breakdown", "total_cooking_time_minutes", "cooking_time_breakdown",
     "protein_level", "meal_type_suitability", "dietary_restrictions", "categories"}

\* fields with a default
SchemaOptional ==
    {"prep_notes", "soaking_required", "soaking_time_minutes", "original_categories",
     "meal_prep_guidance", "recipe_url", "image_url", "video_url", "additional_images"}

SchemaFields == SchemaRequired \cup SchemaOptional

\* Optional[str] fields, whose JSON null is None
OptionalStrFields == {"prep_notes", "recipe_url", "image_url", "video_url"}

Has(data, k) == k \in DOMAIN data

\* pydantic validation of RecipeEnrichment(**data): presence, patterns and ge=0
Validates(data) ==
    /\ SchemaRequired \subseteq DOMAIN data
    /\ data["healthiness_score"] \in HealthinessVocab
    /\ data["ease_of_cooking_score"] \in EaseVocab
    /\ data["indian_ingredient_availability_score"] \in AvailabilityVocab
    /\ data["protein_level"] \in ProteinVocab
    /\ data["prep_time_minutes"] >= 0
    /\ data["total_cooking_time_minutes"] >= 0
    /\ Has(data, "soaking_time_minutes") => data["soaking_time_minutes"] >= 0

\* the object RecipeEnrichment(**data) of a validating data: the schema's fields only
\* (extra keys are ignored), defaults filled in; a field that is None is left out
RecipeEnrichment(data) ==
    LET given == {k \in DOMAIN data \cap SchemaFields :
                     ~(k \in OptionalStrFields /\ data[k] = Null)}
    IN  [k \in given \cup {"soaking_required", "original_categories"} |->
            IF k \in given THEN data[k]
            ELSE IF k = "soaking_required" THEN FALSE ELSE <<>>]

\* recipe.enrichment of a recipe nothing was attached to (None)
NoEnrichment == [none |-> TRUE]

-----------------------------------------------------------------------------
(* Response repair (core/enricher.py, _enrich_single_recipe lines 85-156) *)

Put(data, k, v) == (k :> v) @@ data

\* _fix_unicode on one string: the escaped one-half; <half> stands for U+00BD
FixUnicode(str) == IF str = "1\\u00bd cup" THEN "1<half> cup" ELSE str

StrListKeys ==
    {"ingredients", "instructions", "meal_type_suitability", "dietary_restrictions",
     "additional_images", "original_categories"}
StrKeys ==
    {"healthiness_score", "ease_of_cooking_score", "indian_ingredient_availability_score",
     "protein_level", "prep_notes", "recipe_url", "image_url", "video_url"}

\* lines 85-90: de-escape every string and every list of strings
FixAll(data) ==
    [k \in DOMAIN data |->
        IF k \in StrListKeys THEN [i \in DOMAIN data[k] |-> FixUnicode(data[k][i])]
        ELSE IF k \in StrKeys THEN FixUnicode(data[k])
        ELSE data[k]]

\* mutant: meta_img tried before top_image
AddUrls_MetaFirst(data, recipe) ==
    LET d1 == Put(data, "recipe_url", recipe.url)
        d2 == IF recipe.meta_img # "" THEN Put(d1, "image_url", recipe.meta_img)
              ELSE IF recipe.top_image # "" THEN Put(d1, "image_url", recipe.top_image)
              ELSE IF Len(recipe.images) > 0 THEN Put(d1, "image_url", recipe.images[1])
              ELSE d1
    IN  IF Len(recipe.movies) > 0 THEN Put(d2, "video_url", recipe.movies[1]) ELSE d2

\* lines 92-105: recipe_url, image_url, video_url
AddUrls(data, recipe) ==
    LET d1 == Put(data, "recipe_url", recipe.url)
        d2 == IF recipe.top_image # "" THEN Put(d1, "image_url", recipe.top_image)
              ELSE IF recipe.meta_img # "" THEN Put(d1, "image_url", recipe.meta_img)
              ELSE IF Len(recipe.images) > 0 THEN Put(d1, "image_url", recipe.images[1])
              ELSE d1
    IN  IF Len(recipe.movies) > 0 THEN Put(d2, "video_url", recipe.movies[1]) ELSE d2

\* mutant: the first image is always left out
AddImages_AlwaysSkipsFirst(data, recipe) ==
    IF Len(recipe.images) > 0 THEN Put(data, "additional_images", Tail(recipe.images)) ELSE data

\* lines 107-113: additional_images
AddImages(data, recipe) ==
    IF Len(recipe.images) > 0
    THEN IF Has(data, "image_url") /\ data["image_url"] = recipe.images[1]
            /\ Len(recipe.images) > 1
         THEN Put(data, "additional_images", Tail(recipe.images))
         ELSE Put(data, "additional_images", recipe.images)
    ELSE data

\* lines 115-119: original_categories
AddCategories(data, recipe) == Put(data, "original_categories", recipe.categories)

DefaultGuidance ==
    [components_to_prep |-> <<>>, prep_instructions |-> EmptyDict, storage_info |-> EmptyDict,
     final_assembly |-> "Prepare the recipe as instructed.",
     time_saving_tips |-> <<"No specific meal prep guidance available for this recipe.">>]

\* mutant: the default guidance written over whatever the model supplied
AddGuidance_Overwrites(data) == Put(data, "meal_prep_guidance", DefaultGuidance)

\* lines 121-129: meal_prep_guidance
AddGuidance(data) ==
    IF Has(data, "meal_prep_guidance") THEN data
    ELSE Put(data, "meal_prep_guidance", DefaultGuidance)

\* line 132: required_fields
required_fields ==
    {"title", "generated_summary", "ingredients", "instructions", "healthiness_score",
     "ease_of_cooking_score", "indian_ingredient_availability_score", "prep_time_minutes",
     "prep_time_breakdown", "total_cooking_time_minutes", "cooking_time_breakdown",
     "protein_level", "meal_type_suitability", "dietary_restrictions", "categories"}

\* mutant: protein_level defaulted like the three scores
DefaultOf_ModerateProtein(field, recipe) ==
    CASE field = "title" -> recipe.title
      [] field = "generated_summary" -> <<"A recipe for ">> \o recipe.title
      [] field = "ingredients" -> recipe.ingredients
      [] field = "instructions" -> recipe.instructions
      [] field \in {"meal_type_suitability", "dietary_restrictions"} -> <<>>
      [] field \in {"healthiness_score", "ease_of_cooking_score",
                    "indian_ingredient_availability_score", "protein_level"} -> "Moderate"
      [] field \in {"prep_time_minutes", "total_cooking_time_minutes"} -> 30
      [] OTHER -> [default |-> "Not provided"]

\* mutant: every missing list defaulted to the empty list
DefaultOf_EmptyLists(field, recipe) ==
    CASE field = "title" -> recipe.title
      [] field = "generated_summary" -> <<"A recipe for ">> \o recipe.title
      [] field \in {"ingredients", "instructions", "meal_type_suitability",
                    "dietary_restrictions"} -> <<>>
      [] field = "protein_level" -> "Medium"
      [] field \in {"healthiness_score", "ease_of_cooking_score",
                    "indian_ingredient_availability_score"} -> "Moderate"
      [] field \in {"prep_time_minutes", "total_cooking_time_minutes"} -> 30
      [] OTHER -> [default |-> "Not provided"]

\* lines 145-156: the default of one missing field
DefaultOf(field, recipe) ==
    CASE field = "title" -> recipe.title
      [] field = "generated_summary" -> <<"A recipe for ">> \o recipe.title
      [] field = "ingredients" -> recipe.ingredients
      [] field = "instructions" -> recipe.instructions
      [] field \in {"meal_type_suitability", "dietary_restrictions"} -> <<>>
      [] field = "protein_level" -> "Medium"
      [] field \in {"healthiness_score", "ease_of_cooking_score",
                    "indian_ingredient_availability_score"} -> "Moderate"
      [] field \in {"prep_time_minutes", "total_cooking_time_minutes"} -> 30
      [] OTHER -> [default |-> "Not provided"]

\* mutant: the defaults written over the fields the model supplied
FillMissing_Overwrites(data, recipe) ==
    [k \in DOMAIN data \cup required_fields |->
        IF k \in required_fields THEN DefaultOf(k, recipe) ELSE data[k]]

\* mutant: the branch for the three object-valued fields left out
FillMissing_SkipsObjects(data, recipe) ==
    [k \in DOMAIN data \cup (required_fields \ {"prep_time_breakdown",
                                                 "cooking_time_breakdown", "categories"}) |->
        IF Has(data, k) THEN data[k] ELSE DefaultOf(k, recipe)]

\* lines 140-156: every missing required field gets its default
FillMissing(data, recipe) ==
    [k \in DOMAIN data \cup required_fields |->
        IF Has(data, k) THEN data[k] ELSE DefaultOf(k, recipe)]

\* mutant: the two lists overwritten with the source recipe's after the repairs
Repair_SourceLists(data, recipe) ==
    Put(Put(FillMissing(AddGuidance(AddCategories(AddImages(AddUrls(FixAll(data), recipe), recipe), recipe)), recipe), "ingredients", recipe.ingredients), "instructions", recipe.instructions)

\* the repaired enrichment_data of a parsed response
Repair(data, recipe) ==
    FillMissing(AddGuidance(AddCategories(AddImages(AddUrls(FixAll(data), recipe), recipe),
                                          recipe)), recipe)

-----------------------------------------------------------------------------
(* Provider adapter answers (core/enricher.py, _call_llm_api) *)

\* a complete, schema-valid object as a model returns it
FullPayload ==
    [title |-> <<"a", " ", "b">>, generated_summary |-> <<"yum">>,
     ingredients |-> <<"1\\u00bd cup">>, instructions |-> <<"s1">>,
     healthiness_score |-> "Healthy", ease_of_cooking_score |-> "Easy",
     indian_ingredient_availability_score |-> "High", prep_time_minutes |-> 10,
     prep_time_breakdown |-> [chop |-> "10"], total_cooking_time_minutes |-> 20,
     cooking_time_breakdown |-> [boil |-> "20"], protein_level |-> "Low",
     meal_type_suitability |-> <<"Lunch">>, dietary_restrictions |-> <<"Vegetarian">>,
     categories |-> [meal_type |-> <<"Lunch">>, dish_type |-> <<"Curry">>,
                     cooking_method |-> <<"Boil">>, region |-> <<"Indian">>],
     recipe_url |-> "model-url"]

\* an object that lacks several mandatory fields
PartialPayload ==
    [generated_summary |-> <<"ok">>, healthiness_score |-> "Moderate",
     ease_of_cooking_score |-> "Difficult", total_cooking_time_minutes |-> 5,
     soaking_required |-> TRUE]

\* meal prep guidance as a model writes it
ModelGuidance ==
    [components_to_prep |-> <<"rice">>, prep_instructions |-> [rice |-> "soak overnight"],
     storage_info |-> [rice |-> "fridge, 2 days"], final_assembly |-> "Reheat and mix.",
     time_saving_tips |-> <<"cook double", "freeze half">>]

\* a complete object that also carries the optional guidance and soaking time
GuidedPayload ==
    Put(Put(FullPayload, "meal_prep_guidance", ModelGuidance), "soaking_time_minutes", 15)

\* a complete object with an escaped one-half inside a meal type
EscapedPayload ==
    [FullPayload EXCEPT !.meal_type_suitability = <<"Lunch", "1\\u00bd cup">>]

\* a JSON object without the members named in `missing`
Without(data, missing) == [k \in DOMAIN data \ missing |-> data[k]]

\* a complete object whose healthiness_score is outside the vocabulary
BadScorePayload == [FullPayload EXCEPT !.healthiness_score = "Bad"]

\* a complete object whose prep_time_minutes is negative
BadTimePayload == [FullPayload EXCEPT !.prep_time_minutes = -5]

\* raise: the adapter raises; notjson: text json.loads rejects;
\* sentinel: the text {"error": "..."}; object: the text of a JSON object
Raises == [kind |-> "raise", data |-> EmptyDict]
NotJson == [kind |-> "notjson", data |-> EmptyDict]
Sentinel == [kind |-> "sentinel", data |-> EmptyDict]
Object(data) == [kind |-> "object", data |-> data]

\* the answers a provider stub can give, by name
ResponseNamed ==
    [raise |-> Raises, notjson |-> NotJson, sentinel |-> Sentinel,
     full |-> Object(FullPayload), partial |-> Object(PartialPayload),
     badscore |-> Object(BadScorePayload), badtime |-> Object(BadTimePayload)]

ResponseNames == DOMAIN ResponseNamed

\* provider stubs: one answer for the first k invocations, another from then on
Providers == [first : ResponseNames, k : 1..MAX_RETRIES, then : ResponseNames]

\* what a stub answers when `invocations` invocations were made before
Answer(stub, invocations) ==
    ResponseNamed[IF invocations < stub.k THEN stub.first ELSE stub.then]

-----------------------------------------------------------------------------
(* Orchestrator (core/enricher.py, _enrich_single_recipe) *)

Failure(fs, hit, called, err) ==
    [files |-> fs, hit |-> hit, called |-> called, write |-> "none", wrote |-> EmptyDict,
     ok |-> FALSE, rec |-> NoEnrichment, err |-> err]

\* mutant: a failed cache write escalated to a failure of the attempt
StoreThenValidate_RaisesOnWriteFailure(fs, recipe, model_type, data, io) ==
    LET s == CacheSet(fs, recipe, model_type, data, io)
    IN  [files |-> s.files, hit |-> FALSE, called |-> TRUE,
         write |-> IF s.ret THEN "ok" ELSE "failed", wrote |-> data,
         ok |-> s.ret /\ Validates(data),
         rec |-> IF s.ret /\ Validates(data) THEN RecipeEnrichment(data) ELSE NoEnrichment,
         err |-> IF ~s.ret THEN "OSError"
                 ELSE IF Validates(data) THEN "None" ELSE "ValidationError"]

\* lines 161-164: cache.set, then RecipeEnrichment(**enrichment_data)
StoreThenValidate(fs, recipe, model_type, data, io) ==
    LET s == CacheSet(fs, recipe, model_type, data, io)
    IN  [files |-> s.files, hit |-> FALSE, called |-> TRUE,
         write |-> IF s.ret THEN "ok" ELSE "failed", wrote |-> data,
         ok |-> Validates(data),
         rec |-> IF Validates(data) THEN RecipeEnrichment(data) ELSE NoEnrichment,
         err |-> IF Validates(data) THEN "None" ELSE "ValidationError"]

\* mutant: the cached payload attached without schema validation
UseCached_NoValidation(fs, cached) ==
    [files |-> fs, hit |-> TRUE, called |-> FALSE, write |-> "none", wrote |-> EmptyDict,
     ok |-> TRUE, rec |-> RecipeEnrichment(cached), err |-> "None"]

\* lines 47-51: the cache-hit branch, taken when cached_data is truthy
UseCached(fs, cached) ==
    IF Validates(cached)
    THEN [files |-> fs, hit |-> TRUE, called |-> FALSE, write |-> "none", wrote |-> EmptyDict,
          ok |-> TRUE, rec |-> RecipeEnrichment(cached), err |-> "None"]
    ELSE Failure(fs, TRUE, FALSE, "ValidationError")

\* mutant: the cache lookup dropped, every attempt goes to the provider
EnrichSingleRecipe_NoCacheLookup(fs, recipe, model_type, resp, io) ==
    CASE resp.kind = "raise" -> Failure(fs, FALSE, TRUE, "AdapterError")
      [] resp.kind = "sentinel" -> Failure(fs, FALSE, TRUE, "ValueError")
      [] resp.kind = "notjson" -> Failure(fs, FALSE, TRUE, "JSONDecodeError")
      [] OTHER -> StoreThenValidate(fs, recipe, model_type, Repair(resp.data, recipe), io)

\* one execution of the body of _enrich_single_recipe (lines 45-170): the cache after it,
\* what it did, and the record it attached or the exception it raised
EnrichSingleRecipe(fs, recipe, model_type, resp, io) ==
    LET cached == CacheGet(fs, recipe, model_type)
    IN  IF cached.found /\ DOMAIN cached.data # {}
        THEN UseCached(fs, cached.data)
        ELSE CASE resp.kind = "raise" -> Failure(fs, FALSE, TRUE, "AdapterError")
               [] resp.kind = "sentinel" -> Failure(fs, FALSE, TRUE, "ValueError")
               [] resp.kind = "notjson" -> Failure(fs, FALSE, TRUE, "JSONDecodeError")
               [] OTHER -> StoreThenValidate(fs, recipe, model_type,
                                             Repair(resp.data, recipe), io)

\* mutant: one attempt more than configured
StopAfterAttempt_OffByOne(attempt_number) == attempt_number > MAX_RETRIES

\* line 41: stop=stop_after_attempt(config.MAX_RETRIES)
StopAfterAttempt(attempt_number) == attempt_number >= MAX_RETRIES

\* mutant: the exponent is the attempt number, the first wait is already doubled
WaitExponential_FromAttemptNumber(attempt_number) ==
    LET result == RETRY_DELAY * 2 ^ attempt_number
    IN  IF result > 0 THEN result ELSE 0

\* line 42: wait=wait_exponential(multiplier=config.RETRY_DELAY), the sleep after the
\* failed attempt attempt_number (from 1): multiplier * 2 ** (attempt_number - 1), not
\* below the default min of 0 (the default max is beyond every wait of MAX_RETRIES attempts)
WaitExponential(attempt_number) ==
    LET result == RETRY_DELAY * 2 ^ (attempt_number - 1)
    IN  IF result > 0 THEN result ELSE 0

\* lines 41-42: @retry without reraise: exhausted retries raise tenacity's RetryError,
\* which wraps the last attempt's exception
RetryExhausted(last_exception) == "RetryError"

-----------------------------------------------------------------------------
(* State machine *)

NoPrev == [ok |-> FALSE, rid |-> 0, rec |-> NoEnrichment, cached |-> FALSE]
NoGot == [key |-> <<>>, res |-> NoneResult]

InitCommon ==
    /\ enrichment = [r \in RecipeIds |-> NoEnrichment]
    /\ pc = "idle"
    /\ cur = 0
    /\ attempt = 0
    /\ callProv = 0
    /\ callSets = 0
    /\ callHits = 0
    /\ lastWrite = "none"
    /\ allNotJson = TRUE
    /\ startEmpty = TRUE
    /\ lastHit = FALSE
    /\ lastErr = "None"
    /\ surfaced = "None"
    /\ totalProv = 0
    /\ nCalls = 0
    /\ nDirect = 0
    /\ prev = NoPrev
    /\ stored = [k \in AllKeys |-> NoneResult]
    /\ got = NoGot
    /\ keyIn = <<>>
    /\ keyOut = <<>>
    /\ lastFile = "none"
    /\ repIn = <<>>
    /\ repOut = <<>>
    /\ recipes = <<>>
    /\ batchPc = "idle"
    /\ batchPos = 0
    /\ enriched_recipes = <<>>
    /\ attempted = <<>>
    /\ outcomes = <<>>
    /\ waits = <<>>
    /\ clearState = "never"
    /\ clearedKeys = {}
    /\ saveCall = <<>>
    /\ saved = NoFile
    /\ writers = <<>>
    /\ raceFile = <<>>
    /\ gemIn = <<>>
    /\ gemOut = <<>>
    /\ ctorIn = <<>>
    /\ ctorOut = <<>>

\* the enricher constructed by the OpenAI adapter's __init__ with its token set
Constructed(model_type) ==
    /\ tokens = [m \in ModelTypes |-> TRUE]
    /\ adapter = model_type
    /\ created = "yes"

\* the cache directory RecipeCache.__init__ finds (mkdir with exist_ok): fresh, or
\* holding one file left by an earlier run that can no longer be read
InitialDirs ==
    {[k \in AllKeys |-> NoFile],
     [k \in AllKeys |-> IF k = GenerateCacheKey(RecipePool[1], "GPT4")
                        THEN UnreadableFile ELSE NoFile]}

\* the OpenAI adapter selected (the adapter that hands every vendor answer and every
\* vendor exception through), some provider stub, and the cache directory as found
Init ==
    /\ InitCommon
    /\ MODEL_TYPE = "GPT4"
    /\ Constructed("GPT4")
    /\ provider \in Providers
    /\ files \in InitialDirs

callVars == <<pc, cur, attempt, callProv, callSets, callHits, lastWrite, allNotJson,
              startEmpty, lastHit, lastErr, surfaced, prev, nCalls, lastFile, waits>>
keyVars == <<keyIn, keyOut>>
repVars == <<repIn, repOut>>
batchVars == <<recipes, batchPc, batchPos, enriched_recipes, attempted, outcomes>>
factoryVars == <<tokens, adapter, created>>
clearVars == <<clearState, clearedKeys>>
saveVars == <<saveCall, saved>>
raceVars == <<writers, raceFile>>
geminiVars == <<gemIn, gemOut>>
ctorVars == <<ctorIn, ctorOut>>
otherVars == <<saveVars, raceVars, geminiVars, ctorVars>>

\* enricher._enrich_single_recipe(recipe) is invoked on a constructed enricher:
\* tenacity starts attempt 1
StartCall(r) ==
    /\ pc # "running"
    /\ adapter # "none"
    /\ pc' = "running"
    /\ cur' = r
    /\ attempt' = 0
    /\ callProv' = 0
    /\ callSets' = 0
    /\ callHits' = 0
    /\ lastWrite' = "none"
    /\ allNotJson' = TRUE
    /\ startEmpty' = (\A k \in AllKeys : files[k] = NoFile)
    /\ lastHit' = FALSE
    /\ lastErr' = "None"
    /\ surfaced' = "None"
    /\ lastFile' = "none"
    /\ waits' = <<>>
    /\ nCalls' = nCalls + 1
    /\ prev' = IF pc = "idle" THEN NoPrev
               ELSE [ok |-> pc = "returned", rid |-> cur, rec |-> enrichment[cur],
                     cached |-> lastHit \/ lastWrite = "ok"]
    /\ UNCHANGED <<MODEL_TYPE, provider, files, enrichment, totalProv, nDirect, stored, got>>
    /\ UNCHANGED keyVars
    /\ UNCHANGED repVars
    /\ UNCHANGED factoryVars
    /\ UNCHANGED clearVars
    /\ UNCHANGED otherVars

\* a caller other than enrich_recipes (sample_run.py) invokes _enrich_single_recipe
Call(r) ==
    /\ nCalls < MaxCalls
    /\ StartCall(r)
    /\ UNCHANGED batchVars

\* mutant: the repaired payload is attached before it is validated
Attach_BeforeValidation(enr, r, res) ==
    IF res.ok THEN [enr EXCEPT ![r] = res.rec]
    ELSE IF res.wrote # EmptyDict THEN [enr EXCEPT ![r] = RecipeEnrichment(res.wrote)]
    ELSE enr

\* lines 50 and 164: recipe.enrichment is assigned once the record is built; an attempt
\* that raises has assigned nothing
Attach(enr, r, res) == IF res.ok THEN [enr EXCEPT ![r] = res.rec] ELSE enr

\* one attempt of the running call, and tenacity's decision after it:
\* return the result, schedule a retry, or give up
AttemptStep(io) ==
    /\ pc = "running"
    /\ \E resp \in {Answer(provider, totalProv)} :
       \E res \in {EnrichSingleRecipe(files, RecipePool[cur], MODEL_TYPE, resp, io)} :
           /\ attempt' = attempt + 1
           /\ lastFile' = files[GenerateCacheKey(RecipePool[cur], MODEL_TYPE)].st
           /\ files' = res.files
           /\ lastHit' = res.hit
           /\ callHits' = callHits + (IF res.hit THEN 1 ELSE 0)
           /\ callProv' = callProv + (IF res.called THEN 1 ELSE 0)
           /\ totalProv' = totalProv + (IF res.called THEN 1 ELSE 0)
           /\ callSets' = callSets + (IF res.write # "none" THEN 1 ELSE 0)
           /\ lastWrite' = res.write
           /\ allNotJson' = (allNotJson /\ (res.called => resp.kind = "notjson"))
           /\ lastErr' = res.err
           /\ enrichment' = Attach(enrichment, cur, res)
           /\ IF res.ok
              THEN /\ pc' = "returned"
                   /\ surfaced' = "None"
                   /\ waits' = waits
              ELSE IF StopAfterAttempt(attempt + 1)
                   THEN pc' = "raised" /\ surfaced' = RetryExhausted(res.err) /\ waits' = waits
                   ELSE /\ pc' = "running"
                        /\ surfaced' = "None"
                        /\ waits' = Append(waits, WaitExponential(attempt + 1))
    /\ UNCHANGED <<MODEL_TYPE, provider, cur, startEmpty, nCalls, nDirect, prev, stored, got>>
    /\ UNCHANGED keyVars
    /\ UNCHANGED repVars
    /\ UNCHANGED factoryVars
    /\ UNCHANGED clearVars
    /\ UNCHANGED otherVars

\* an attempt of a call made outside enrich_recipes
Attempt(io) ==
    /\ AttemptStep(io)
    /\ UNCHANGED batchVars

\* payloads a direct caller of cache.set stores
DirectPayloads == {Repair(FullPayload, RecipePool[1]), BadScorePayload, EmptyDict}

\* cache.set(recipe, model, payload) called directly
DirectSet(r, m, data, io) ==
    /\ pc # "running"
    /\ nDirect < MaxDirect
    /\ LET s == CacheSet(files, RecipePool[r], m, data, io)
           key == GenerateCacheKey(RecipePool[r], m)
       IN  /\ files' = s.files
           /\ stored' = [stored EXCEPT ![key] = IF s.ret THEN Found(data) ELSE NoneResult]
    /\ got' = NoGot
    /\ nDirect' = nDirect + 1
    /\ clearState' = IF clearState \in {"ok", "okThenSet"} THEN "okThenSet" ELSE "never"
    /\ UNCHANGED <<MODEL_TYPE, provider, enrichment, totalProv, clearedKeys>>
    /\ UNCHANGED callVars
    /\ UNCHANGED keyVars
    /\ UNCHANGED repVars
    /\ UNCHANGED batchVars
    /\ UNCHANGED factoryVars
    /\ UNCHANGED otherVars

\* cache.get(recipe, model) called directly
DirectGet(r, m) ==
    /\ pc # "running"
    /\ nDirect < MaxDirect
    /\ got' = [key |-> GenerateCacheKey(RecipePool[r], m),
               res |-> CacheGet(files, RecipePool[r], m)]
    /\ nDirect' = nDirect + 1
    /\ UNCHANGED <<MODEL_TYPE, provider, files, enrichment, totalProv, stored>>
    /\ UNCHANGED callVars
    /\ UNCHANGED keyVars
    /\ UNCHANGED repVars
    /\ UNCHANGED batchVars
    /\ UNCHANGED factoryVars
    /\ UNCHANGED clearVars
    /\ UNCHANGED otherVars

\* cache.clear() called directly
DirectClear(kept) ==
    /\ pc # "running"
    /\ nDirect < MaxDirect
    /\ \E c \in {CacheClear(files, kept)} :
          /\ files' = c.files
          /\ stored' = [k \in AllKeys |-> IF k \in kept THEN stored[k] ELSE NoneResult]
          /\ clearState' = IF c.ret THEN "ok" ELSE "failed"
          /\ clearedKeys' = IF c.ret THEN {k \in AllKeys : files[k].st = "json"} ELSE clearedKeys
    /\ got' = NoGot
    /\ nDirect' = nDirect + 1
    /\ UNCHANGED <<MODEL_TYPE, provider, enrichment, totalProv>>
    /\ UNCHANGED callVars
    /\ UNCHANGED keyVars
    /\ UNCHANGED repVars
    /\ UNCHANGED batchVars
    /\ UNCHANGED factoryVars
    /\ UNCHANGED otherVars

\* the orchestrator, called for one recipe after another
Next ==
    \/ \E r \in RecipeIds : Call(r)
    \/ \E io \in AttemptIo : Attempt(io)

Spec == Init /\ [][Next]_vars

\* the cache used on its own
InitCache ==
    /\ InitCommon
    /\ MODEL_TYPE = "GPT4"
    /\ Constructed("GPT4")
    /\ provider = [first |-> "full", k |-> 1, then |-> "full"]
    /\ files = [k \in AllKeys |-> NoFile]

NextCache ==
    \/ \E r \in RecipeIds, m \in ModelTypes, data \in DirectPayloads, io \in IoOutcomes :
          DirectSet(r, m, data, io)
    \/ \E r \in RecipeIds, m \in ModelTypes : DirectGet(r, m)
    \/ \E kept \in SUBSET CacheFiles(files) : DirectClear(kept)

SpecCache == InitCache /\ [][NextCache]_vars

\* a file holding the start of one text followed by the rest of a longer, older one
MixedFile == [st |-> "mixed", text |-> {}]

\* the length of the text json.dump writes for a payload, counted in members
TextLen(data) == Cardinality(DOMAIN data)

\* two cache.set calls on recipes with the same fingerprint and model begin
StartRace(ra, rb, m, da, db) ==
    /\ writers = <<>>
    /\ GenerateCacheKey(RecipePool[ra], m) = GenerateCacheKey(RecipePool[rb], m)
    /\ writers' = <<[pc |-> "start", recipe |-> ra, data |-> da],
                    [pc |-> "start", recipe |-> rb, data |-> db]>>
    /\ raceFile' = [key |-> GenerateCacheKey(RecipePool[ra], m), model |-> m, len |-> 0, last |-> 0]
    /\ UNCHANGED <<MODEL_TYPE, provider, files, enrichment, totalProv, nDirect, stored, got>>
    /\ UNCHANGED callVars
    /\ UNCHANGED keyVars
    /\ UNCHANGED repVars
    /\ UNCHANGED batchVars
    /\ UNCHANGED factoryVars
    /\ UNCHANGED clearVars
    /\ UNCHANGED <<saveVars, geminiVars, ctorVars>>

\* cache.py:66, open(cache_file, 'w'): the file is created or truncated to nothing,
\* and this writer's position is the start of the file
RaceOpen(w) ==
    /\ writers # <<>>
    /\ writers[w].pc = "start"
    /\ writers' = [writers EXCEPT ![w].pc = "opened"]
    /\ raceFile' = [raceFile EXCEPT !.len = 0]
    /\ files' = [files EXCEPT ![raceFile.key] = PartialFile]
    /\ UNCHANGED <<MODEL_TYPE, provider, enrichment, totalProv, nDirect, stored, got>>
    /\ UNCHANGED callVars
    /\ UNCHANGED keyVars
    /\ UNCHANGED repVars
    /\ UNCHANGED batchVars
    /\ UNCHANGED factoryVars
    /\ UNCHANGED clearVars
    /\ UNCHANGED <<saveVars, geminiVars, ctorVars>>

\* cache.py:67 and the end of the with block: the buffered text of json.dump is written
\* from this writer's position, over whatever the file holds by now, and set returns True
RaceWrite(w) ==
    /\ writers # <<>>
    /\ writers[w].pc = "opened"
    /\ writers' = [writers EXCEPT ![w].pc = "done"]
    /\ LET n == TextLen(writers[w].data)
       IN  /\ raceFile' = [raceFile EXCEPT !.len = IF n >= @ THEN n ELSE @, !.last = w]
           /\ files' = [files EXCEPT ![raceFile.key] =
                          IF n >= raceFile.len THEN JsonFile(writers[w].data) ELSE MixedFile]
    /\ UNCHANGED <<MODEL_TYPE, provider, enrichment, totalProv, nDirect, stored, got>>
    /\ UNCHANGED callVars
    /\ UNCHANGED keyVars
    /\ UNCHANGED repVars
    /\ UNCHANGED batchVars
    /\ UNCHANGED factoryVars
    /\ UNCHANGED clearVars
    /\ UNCHANGED <<saveVars, geminiVars, ctorVars>>

NextRace ==
    \/ \E ra \in RecipeIds, rb \in RecipeIds, m \in ModelTypes, da \in DirectPayloads,
          db \in DirectPayloads : StartRace(ra, rb, m, da, db)
    \/ \E w \in {1, 2} : RaceOpen(w)
    \/ \E w \in {1, 2} : RaceWrite(w)

\* two concurrent writers on a fresh cache directory
SpecRace == InitCache /\ [][NextRace]_vars

-----------------------------------------------------------------------------
(* Gemini adapter (core/enricher.py, GeminiRecipeEnricher._call_llm_api) *)

\* A response text is a sequence of pieces: "fence" a code fence of three backticks, "json" the word json,
\* "ws" blanks, "nl" a line end, "J" the text of one complete JSON value (without a
\* backslash), "x" other text, "q" other text holding a double quote, "bs" other text
\* holding a backslash that starts no JSON escape
TextPieces == {"fence", "json", "ws", "nl", "J", "x", "q", "bs"}

\* str.isspace() of a piece
IsWs(p) == p \in {"ws", "nl"}

\* str.strip()
RECURSIVE StripLeft(_)
StripLeft(t) == IF t # <<>> /\ IsWs(Head(t)) THEN StripLeft(Tail(t)) ELSE t

RECURSIVE StripRight(_)
StripRight(t) == IF t # <<>> /\ IsWs(t[Len(t)]) THEN StripRight(SubSeq(t, 1, Len(t) - 1)) ELSE t

StripWs(t) == StripRight(StripLeft(t))

\* text.rfind of the fence, as a piece index, 0 when there is none
LastFence(t) == IF \E i \in DOMAIN t : t[i] = "fence" THEN CHOOSE i \in DOMAIN t : t[i] = "fence" /\ \A j \in DOMAIN t : t[j] = "fence" => j <= i ELSE 0

\* lines 347-358: the content between an opening fence (with or without json) and the
\* last fence, when the last fence lies beyond the opening one
Unfence(t) ==
    IF Len(t) >= 2 /\ t[1] = "fence" /\ t[2] = "json"
    THEN IF LastFence(t) > 3 THEN StripWs(SubSeq(t, 3, LastFence(t) - 1)) ELSE t
    ELSE IF Len(t) >= 1 /\ t[1] = "fence"
    THEN IF LastFence(t) > 2 THEN StripWs(SubSeq(t, 2, LastFence(t) - 1)) ELSE t
    ELSE t

\* json.loads(text) succeeds: one JSON value, white space around it allowed
Parseable(t) == StripWs(t) = <<"J">>

\* line 369, str.replace of every double quote by an escaped one, on the pieces
EscapeQuotes(t) == [i \in DOMAIN t |-> IF t[i] = "q" THEN "q-escaped" ELSE IF t[i] = "J" THEN "J-escaped" ELSE t[i]]

\* the first piece of every sentinel
ErrorMarker == "{\"error\":"

\* line 343
EmptySentinel == <<ErrorMarker, "\"", "Gemini returned an empty response", "\"", "}">>

\* line 369
InvalidJsonSentinel(t) == <<ErrorMarker, "\"", "Gemini returned invalid JSON", "\"", ",", "\"original_response\":", "\"">> \o EscapeQuotes(t) \o <<"\"", "}">>

\* line 374
ApiErrorSentinel(msg) == <<ErrorMarker, "\"", "Error calling Gemini API: ">> \o EscapeQuotes(msg) \o <<"\"", "}">>

\* what the vendor call does: generate_content or response.text raises with a message,
\* response.text is None, or response.text is a text
BackendRaises(msg) == [kind |-> "raises", msg |-> msg, text |-> <<>>]
BackendNone == [kind |-> "none", msg |-> <<>>, text |-> <<>>]
BackendText(t) == [kind |-> "text", msg |-> <<>>, text |-> t]

\* lines 339-370: the text path
GeminiText(backend) ==
    IF backend.kind = "none" \/ backend.text = <<>> \/ StripWs(backend.text) = <<>>
    THEN EmptySentinel
    ELSE LET response_text == Unfence(StripWs(backend.text))
         IN  IF Parseable(response_text) THEN response_text
             ELSE InvalidJsonSentinel(response_text)

\* mutant: no try/except around the vendor call
GeminiCallLlmApi_Unguarded(backend) ==
    IF backend.kind = "raises" THEN [raised |-> TRUE, text |-> <<>>]
    ELSE [raised |-> FALSE, text |-> GeminiText(backend)]

\* GeminiRecipeEnricher._call_llm_api: the whole body sits in try/except Exception
GeminiCallLlmApi(backend) ==
    IF backend.kind = "raises" THEN [raised |-> FALSE, text |-> ApiErrorSentinel(backend.msg)]
    ELSE [raised |-> FALSE, text |-> GeminiText(backend)]

\* one call of the adapter on a backend outcome
GeminiCall(backend) ==
    /\ gemIn = <<>>
    /\ gemIn' = backend
    /\ gemOut' = GeminiCallLlmApi(backend)
    /\ UNCHANGED <<MODEL_TYPE, provider, files, enrichment, totalProv, nDirect, stored, got>>
    /\ UNCHANGED callVars
    /\ UNCHANGED keyVars
    /\ UNCHANGED repVars
    /\ UNCHANGED batchVars
    /\ UNCHANGED factoryVars
    /\ UNCHANGED clearVars
    /\ UNCHANGED <<saveVars, raceVars, ctorVars>>

NextGemini ==
    /\ gemIn = <<>>
    /\ \/ \E msg \in {<<"x">>, <<"q">>, <<"bs">>, <<"x", "nl", "x">>} : GeminiCall(BackendRaises(msg))
       \/ GeminiCall(BackendNone)
       \/ \E n \in 0..MaxText : \E t \in [1..n -> TextPieces] : GeminiCall(BackendText(t))

\* the Gemini adapter used on its own
SpecGemini == InitCache /\ [][NextGemini]_vars

-----------------------------------------------------------------------------
(* Recipe construction (core/models.py, Recipe) *)

\* A recipe text is a sequence of characters, with each section marker, each digit and
\* each word standing as one character: "a" and "b" are words without a period
NextSections == {"How to make", "Suggestion", "For", "Time", "Video", "Tags", "Categories"}
Digits == {"0", "1", "2", "3", "4", "5", "6", "7", "8", "9"}

\* str.isspace() of one character
IsSpace(c) == c \in {" ", "\n"}

\* str.strip()
RECURSIVE LStrip(_)
LStrip(t) == IF t # <<>> /\ IsSpace(Head(t)) THEN LStrip(Tail(t)) ELSE t

RECURSIVE RStrip(_)
RStrip(t) == IF t # <<>> /\ IsSpace(t[Len(t)]) THEN RStrip(SubSeq(t, 1, Len(t) - 1)) ELSE t

StripLine(t) == RStrip(LStrip(t))

\* text.find(x, from) for x in a set: the least index at or after from, 0 when none
FindFrom(t, S, from) == IF \E i \in from..Len(t) : t[i] \in S THEN CHOOSE i \in from..Len(t) : t[i] \in S /\ \A j \in from..Len(t) : t[j] \in S => i <= j ELSE 0

\* lines 65-67: move past white space, colons and dashes
RECURSIVE SkipSeparators(_, _)
SkipSeparators(t, i) == IF i <= Len(t) /\ (IsSpace(t[i]) \/ t[i] \in {":", "-"}) THEN SkipSeparators(t, i + 1) ELSE i

\* str.split("\n")
RECURSIVE SplitLines(_)
SplitLines(t) == IF FindFrom(t, {"\n"}, 1) = 0 THEN <<t>> ELSE <<SubSeq(t, 1, FindFrom(t, {"\n"}, 1) - 1)>> \o SplitLines(SubSeq(t, FindFrom(t, {"\n"}, 1) + 1, Len(t)))

\* line 88: line.startswith(("\u2022", "-", "1.", ..., "0.")), <bullet> standing for U+2022
StartsWithPrefix(l) == l[1] \in {"<bullet>", "-"} \/ (Len(l) >= 2 /\ l[1] \in Digits /\ l[2] = ".")

\* line 89: line.split(".", 1)[-1] if "." in line else line[1:]
DropPrefix(l) == IF FindFrom(l, {"."}, 1) # 0 THEN SubSeq(l, FindFrom(l, {"."}, 1) + 1, Len(l)) ELSE Tail(l)

\* lines 85-92 on one line: the item, or the empty string when the line gives none
CleanLine(line) ==
    LET l == StripLine(line)
    IN  IF l = <<>> THEN <<>>
        ELSE IF StartsWithPrefix(l) THEN StripLine(DropPrefix(l)) ELSE l

\* Recipe._extract_section(text, section_name), text being a string
ExtractSection(text, section_name) ==
    LET start_idx == FindFrom(text, {section_name}, 1)
    IN  IF start_idx = 0 THEN <<>>
        ELSE LET content_start == SkipSeparators(text, start_idx + 1)
                 found == FindFrom(text, NextSections, content_start)
                 end_idx == IF found = 0 THEN Len(text) + 1 ELSE found
                 lines == SplitLines(StripLine(SubSeq(text, content_start, end_idx - 1)))
                 cleaned == [i \in DOMAIN lines |-> CleanLine(lines[i])]
             IN  SelectSeq(cleaned, LAMBDA item : item # <<>>)

\* _extract_section on recipe.text: text None makes text.find raise, which is caught
ExtractFrom(args, section_name) == IF args.hasText THEN ExtractSection(args.text, section_name) ELSE <<>>

\* the arguments of Recipe(...): text None or a string, the two lists (empty when left out)
RecipeArgs(hasText, text, ingredients, instructions) == [hasText |-> hasText, text |-> text, ingredients |-> ingredients, instructions |-> instructions]

\* lines 101-108: the instructions of a recipe constructed without any; the membership
\* test on text raises TypeError when text is None
DeriveInstructions(args) ==
    LET instructions_text == ExtractFrom(args, "How to make")
    IN  IF instructions_text # <<>> THEN [raised |-> FALSE, list |-> instructions_text]
        ELSE IF ~args.hasText THEN [raised |-> TRUE, list |-> <<>>]
        ELSE IF FindFrom(args.text, {"Instructions"}, 1) # 0
        THEN [raised |-> FALSE, list |-> ExtractFrom(args, "Instructions")]
        ELSE [raised |-> FALSE, list |-> instructions_text]

\* mutant: the validator derives both lists whether or not they were supplied
Construct_AlwaysDerives(args) ==
    LET ins == DeriveInstructions(args)
    IN  [raised |-> ins.raised,
         ingredients |-> IF ins.raised THEN <<>> ELSE ExtractFrom(args, "Ingredients"),
         instructions |-> ins.list]

\* Recipe(...) with the validator extract_ingredients_and_instructions, lines 98-110
Construct(args) ==
    LET ins == IF args.instructions # <<>> THEN [raised |-> FALSE, list |-> args.instructions]
               ELSE DeriveInstructions(args)
    IN  [raised |-> ins.raised,
         ingredients |-> IF ins.raised THEN <<>>
                         ELSE IF args.ingredients # <<>> THEN args.ingredients
                         ELSE ExtractFrom(args, "Ingredients"),
         instructions |-> ins.list]

\* the lines recipe texts are made of: a plain item, a dashed item, a bulleted item
\* ending in a period, a numbered item, a dashed item with a decimal, a sub-heading
\* beginning with a section marker, a blank line
LinePool ==
    <<<<"a">>, <<"-", " ", "a">>, <<"<bullet>", " ", "a", ".">>, <<"1", ".", " ", "b">>,
      <<"-", " ", "1", ".", "5", " ", "a">>, <<"For", " ", "a", ":">>, <<" ">>>>

\* lines joined by line ends
RECURSIVE JoinLines(_)
JoinLines(ls) == IF ls = <<>> THEN <<>> ELSE IF Len(ls) = 1 THEN ls[1] ELSE ls[1] \o <<"\n">> \o JoinLines(Tail(ls))

\* a scraped body: an introduction, the Ingredients marker and its lines, the
\* instructions marker and its lines
TextOf(ingLines, marker, stepLines) ==
    <<"b", ".", "\n", "Ingredients", ":", "\n">> \o JoinLines(ingLines)
        \o <<"\n", "\n", marker, ":", "\n">> \o JoinLines(stepLines)

\* one construction Recipe(title=..., text=..., ingredients=..., instructions=...)
ConstructRecipe(args, shape) ==
    /\ ctorIn = <<>>
    /\ ctorIn' = [args |-> args, shape |-> shape]
    /\ ctorOut' = Construct(args)
    /\ UNCHANGED <<MODEL_TYPE, provider, files, enrichment, totalProv, nDirect, stored, got>>
    /\ UNCHANGED callVars
    /\ UNCHANGED keyVars
    /\ UNCHANGED repVars
    /\ UNCHANGED batchVars
    /\ UNCHANGED factoryVars
    /\ UNCHANGED clearVars
    /\ UNCHANGED <<saveVars, raceVars, geminiVars>>

\* how a text was made: its lines and its instructions marker ("" for a text not made of lines)
Shape(ingLines, marker, stepLines) == [ingLines |-> ingLines, marker |-> marker, stepLines |-> stepLines]

ExplicitLists == {<<>>, <<<<"i">>, <<"1", ".", "5", " ", "a">>>>}

NextCtor ==
    /\ ctorIn = <<>>
    /\ \/ \E n \in 1..MaxLines : \E ix \in [1..n -> DOMAIN LinePool] :
          \E marker \in {"How to make", "Instructions"}, ing \in ExplicitLists, ins \in ExplicitLists :
          \E ls \in {[i \in 1..n |-> LinePool[ix[i]]]} :
             \/ ConstructRecipe(RecipeArgs(TRUE, TextOf(ls, marker, <<LinePool[4]>>), ing, ins),
                                Shape(ls, marker, <<LinePool[4]>>))
             \/ ConstructRecipe(RecipeArgs(TRUE, TextOf(<<LinePool[2]>>, marker, ls), ing, ins),
                                Shape(<<LinePool[2]>>, marker, ls))
       \/ \E ing \in ExplicitLists, ins \in ExplicitLists :
             \/ ConstructRecipe(RecipeArgs(FALSE, <<>>, ing, ins), Shape(<<>>, "", <<>>))
             \/ ConstructRecipe(RecipeArgs(TRUE, <<"a", " ", "b", ".">>, ing, ins), Shape(<<>>, "", <<>>))

\* Recipe construction used on its own
SpecCtor == InitCache /\ [][NextCtor]_vars

\* the key function used on its own, on pairs of recipes and models
KeyRecipes ==
    {MkRecipe(TitleDomain[t], TextDomain[x], ing, ins, OtherFields[o]) :
        t \in DOMAIN TitleDomain, x \in DOMAIN TextDomain, ing \in {<<"i1">>, <<>>},
        ins \in {<<"s1">>, <<>>}, o \in DOMAIN OtherFields}

\* the keys of two recipes under two models, computed once
ComputeKeys(ra, ma, rb, mb) ==
    /\ keyIn = <<>>
    /\ keyIn' = <<ra, ma, rb, mb>>
    /\ keyOut' = <<GenerateCacheKey(ra, ma), GenerateCacheKey(rb, mb)>>
    /\ UNCHANGED <<MODEL_TYPE, provider, files, enrichment, totalProv, nDirect, stored, got>>
    /\ UNCHANGED callVars
    /\ UNCHANGED repVars
    /\ UNCHANGED batchVars
    /\ UNCHANGED factoryVars
    /\ UNCHANGED clearVars
    /\ UNCHANGED otherVars

NextKey ==
    /\ keyIn = <<>>
    /\ \E ra \in KeyRecipes, rb \in KeyRecipes, ma \in ModelTypes, mb \in ModelTypes :
          ComputeKeys(ra, ma, rb, mb)

SpecKey == InitCache /\ [][NextKey]_vars

\* the lists handed to enrich_recipes
BatchInputs == UNION {[1..n -> RecipeIds] : n \in 0..MaxBatch}

\* enrich_recipes(recipes) is called: enriched_recipes = []
EnrichRecipes(input) ==
    /\ batchPc = "idle"
    /\ pc = "idle"
    /\ recipes' = input
    /\ batchPc' = "loop"
    /\ batchPos' = 0
    /\ enriched_recipes' = <<>>
    /\ attempted' = <<>>
    /\ outcomes' = <<>>
    /\ UNCHANGED <<MODEL_TYPE, provider, files, enrichment, totalProv, nDirect, stored, got>>
    /\ UNCHANGED callVars
    /\ UNCHANGED keyVars
    /\ UNCHANGED repVars
    /\ UNCHANGED factoryVars
    /\ UNCHANGED clearVars
    /\ UNCHANGED otherVars

\* the for loop takes the next recipe and awaits _enrich_single_recipe(recipe)
BatchCall ==
    /\ batchPc = "loop"
    /\ batchPos < Len(recipes)
    /\ StartCall(recipes[batchPos + 1])
    /\ attempted' = Append(attempted, recipes[batchPos + 1])
    /\ UNCHANGED <<recipes, batchPc, batchPos, enriched_recipes, outcomes>>

\* mutant: no except around the call, a failed recipe ends the batch
AfterCall_AbortsOnFailure(list, r, result) ==
    IF result = "returned" THEN [list |-> Append(list, r), go |-> TRUE]
    ELSE [list |-> list, go |-> FALSE]

\* lines 203-208: the call returned (append) or raised (log and continue)
AfterCall(list, r, result) ==
    IF result = "returned" THEN [list |-> Append(list, r), go |-> TRUE]
    ELSE [list |-> list, go |-> TRUE]

\* an attempt of the awaited call; when it ends the call, the loop body finishes
BatchAttempt(io) ==
    /\ batchPc = "loop"
    /\ AttemptStep(io)
    /\ IF pc' = "running"
       THEN UNCHANGED <<batchPc, batchPos, enriched_recipes, outcomes>>
       ELSE LET a == AfterCall(enriched_recipes, cur, pc')
            IN  /\ enriched_recipes' = a.list
                /\ batchPc' = IF a.go THEN "loop" ELSE "aborted"
                /\ batchPos' = batchPos + 1
                /\ outcomes' = Append(outcomes, pc' = "returned")
    /\ UNCHANGED <<recipes, attempted>>

\* the loop is over: return enriched_recipes
BatchReturn ==
    /\ batchPc = "loop"
    /\ pc # "running"
    /\ batchPos = Len(recipes)
    /\ batchPc' = "done"
    /\ UNCHANGED <<MODEL_TYPE, provider, files, enrichment, totalProv, nDirect, stored, got>>
    /\ UNCHANGED <<recipes, batchPos, enriched_recipes, attempted, outcomes>>
    /\ UNCHANGED callVars
    /\ UNCHANGED keyVars
    /\ UNCHANGED repVars
    /\ UNCHANGED factoryVars
    /\ UNCHANGED clearVars
    /\ UNCHANGED otherVars

\* RecipeEnrichment.model_dump(): every field of the schema, None for the unset ones
EnrichmentDump(rec) == [k \in SchemaFields |-> IF Has(rec, k) THEN rec[k] ELSE Null]

\* the dump of an object-valued field that is None
NullObject == [null |-> TRUE]

\* Recipe.model_dump(): the recipe's fields and the enrichment nested under "enrichment"
ModelDump(r, enr) ==
    [k \in DOMAIN RecipePool[r] \cup {"enrichment"} |->
        IF k # "enrichment" THEN RecipePool[r][k]
        ELSE IF enr[r] = NoEnrichment THEN NullObject ELSE EnrichmentDump(enr[r])]

\* mutant: only the recipes that carry an enrichment are dumped
DumpRecipes_SkipsUnenriched(list, enr) ==
    LET kept == SelectSeq(list, LAMBDA r : enr[r] # NoEnrichment)
    IN  [i \in DOMAIN kept |-> ModelDump(kept[i], enr)]

\* line 218: [recipe.model_dump() for recipe in recipes]
DumpRecipes(list, enr) == [i \in DOMAIN list |-> ModelDump(list[i], enr)]

\* the text of a null where an object may stand
NullText == {<<"null">>}

\* json.dump of the list: one object text per element, nested objects as nested text
JsonDumpList(objs) ==
    [i \in DOMAIN objs |->
        JsonDump([k \in DOMAIN objs[i] |->
            IF k # "enrichment" THEN objs[i][k]
            ELSE IF objs[i][k] = NullObject THEN NullText ELSE JsonDump(objs[i][k])])]

\* json.load of the array text
JsonLoadList(text) ==
    [i \in DOMAIN text |->
        LET o == JsonLoad(text[i])
        IN  [k \in DOMAIN o |->
                IF k # "enrichment" THEN o[k]
                ELSE IF o[k] = NullText THEN NullObject ELSE JsonLoad(o[k])]]

\* save_enriched_recipes(recipes, output_file), lines 212-226: the file is written
\* ("ok"), open fails ("openfail") or the write fails midway; a failure is re-raised
SaveEnrichedRecipes(list, io) ==
    /\ batchPc = "done"
    /\ saveCall = <<>>
    /\ saveCall' = [list |-> list, raised |-> io # "ok"]
    /\ saved' = CASE io = "ok" -> [st |-> "json", text |-> JsonDumpList(DumpRecipes(list, enrichment))]
                  [] io = "openfail" -> saved
                  [] OTHER -> PartialFile
    /\ UNCHANGED <<MODEL_TYPE, provider, files, enrichment, totalProv, nDirect, stored, got>>
    /\ UNCHANGED callVars
    /\ UNCHANGED keyVars
    /\ UNCHANGED repVars
    /\ UNCHANGED batchVars
    /\ UNCHANGED factoryVars
    /\ UNCHANGED clearVars
    /\ UNCHANGED <<raceVars, geminiVars, ctorVars>>

NextBatch ==
    \/ \E input \in BatchInputs : EnrichRecipes(input)
    \/ BatchCall
    \/ \E io \in AttemptIo : BatchAttempt(io)
    \/ BatchReturn
    \/ \E list \in {enriched_recipes, recipes}, io \in IoOutcomes : SaveEnrichedRecipes(list, io)

\* enrich_recipes on a fresh cache directory
InitBatch ==
    /\ InitCommon
    /\ MODEL_TYPE = "GPT4"
    /\ Constructed("GPT4")
    /\ provider \in Providers
    /\ files = [k \in AllKeys |-> NoFile]

SpecBatch == InitBatch /\ [][NextBatch]_vars

\* mutant: the adapter constructed without looking at its token
ConstructAdapter_NoCredentialCheck(model_type, toks) ==
    [raised |-> FALSE, adapter |-> model_type]

\* OpenAI / Claude / Gemini RecipeEnricher.__init__: ValueError when the adapter's token
\* is not set (None or empty), the enricher object otherwise
ConstructAdapter(model_type, toks) ==
    IF toks[model_type] THEN [raised |-> FALSE, adapter |-> model_type]
    ELSE [raised |-> TRUE, adapter |-> "none"]

\* create_enricher(): the adapter of config.MODEL_TYPE is constructed
CreateEnricher ==
    /\ created = "no"
    /\ \E c \in {ConstructAdapter(MODEL_TYPE, tokens)} :
          /\ adapter' = c.adapter
          /\ created' = IF c.raised THEN "raised" ELSE "yes"
    /\ UNCHANGED <<MODEL_TYPE, provider, files, enrichment, totalProv, nDirect, stored, got,
                   tokens>>
    /\ UNCHANGED callVars
    /\ UNCHANGED keyVars
    /\ UNCHANGED repVars
    /\ UNCHANGED batchVars
    /\ UNCHANGED clearVars
    /\ UNCHANGED otherVars

\* a process start: some model selected, some tokens set, no enricher yet
InitFactory ==
    /\ InitCommon
    /\ MODEL_TYPE \in ModelTypes
    /\ tokens \in [ModelTypes -> BOOLEAN]
    /\ adapter = "none"
    /\ created = "no"
    /\ provider \in {p \in Providers : p.k = 1 /\ p.then = "full"}
    /\ files = [k \in AllKeys |-> NoFile]

NextFactory ==
    \/ CreateEnricher
    \/ \E r \in RecipeIds : Call(r)
    \/ \E io \in AttemptIo : Attempt(io)

SpecFactory == InitFactory /\ [][NextFactory]_vars

\* the objects a model answers with, before any member is left out
PayloadBases == {FullPayload, GuidedPayload}

\* one attempt of _enrich_single_recipe on an empty cache, the provider answering the
\* object `base` with the members `missing` left out
RepairPayload(base, missing, r, io) ==
    /\ repIn = <<>>
    /\ LET payload == Without(base, missing)
           res == EnrichSingleRecipe(files, RecipePool[r], MODEL_TYPE, Object(payload), io)
       IN  /\ repIn' = [payload |-> payload, recipe |-> r, io |-> io]
           /\ repOut' = res
           /\ files' = repOut'.files
    /\ UNCHANGED <<MODEL_TYPE, provider, enrichment, totalProv, nDirect, stored, got>>
    /\ UNCHANGED callVars
    /\ UNCHANGED keyVars
    /\ UNCHANGED batchVars
    /\ UNCHANGED factoryVars
    /\ UNCHANGED clearVars
    /\ UNCHANGED otherVars

\* nothing, one mandatory field, or all of them left out
FewMissing == {{}, required_fields} \cup {{f} : f \in required_fields}

\* the attempts explored: every subset of the mandatory fields left out of either
\* object, for one recipe and a successful write; and, for every base, recipe and write
\* outcome, the subsets of FewMissing
NextRepair ==
    /\ repIn = <<>>
    /\ \/ \E base \in PayloadBases, missing \in SUBSET required_fields :
             RepairPayload(base, missing, 3, "ok")
       \/ \E base \in PayloadBases \cup {EscapedPayload}, missing \in FewMissing,
             r \in RecipeIds, io \in AttemptIo : RepairPayload(base, missing, r, io)

SpecRepair == InitCache /\ [][NextRepair]_vars

\* the media fields a scraped recipe can carry: each image field empty or a URL, the
\* primary image possibly one of the listed images, lists of URLs of length 0 to 2
MediaSettings ==
    [url : {"u1"}, top_image : {"", "top", "im1", "im2"}, meta_img : {"", "meta"},
     images : {<<>>, <<"im1">>, <<"im1", "im2">>}, movies : {<<>>, <<"mv1", "mv2">>},
     categories : {<<"c1">>}, summary : {Null}]

\* complete objects without media fields, and with an image_url and video_url of the
\* model's own
MediaPayloads ==
    {FullPayload, Put(FullPayload, "image_url", "model-img"),
     Put(Put(FullPayload, "image_url", "im1"), "video_url", "model-vid")}

\* one attempt of _enrich_single_recipe on an empty cache for a recipe with the given
\* media fields
RepairMedia(payload, other, io) ==
    /\ repIn = <<>>
    /\ \E recipe \in {MkRecipe(<<"a", " ", "b">>, "t1", <<"i1">>, <<"s1">>, other)} :
       \E res \in {EnrichSingleRecipe(files, recipe, MODEL_TYPE, Object(payload), io)} :
          /\ repIn' = [payload |-> payload, recipe |-> 0, io |-> io, media |-> recipe]
          /\ repOut' = res
          /\ files' = res.files
    /\ UNCHANGED <<MODEL_TYPE, provider, enrichment, totalProv, nDirect, stored, got>>
    /\ UNCHANGED callVars
    /\ UNCHANGED keyVars
    /\ UNCHANGED batchVars
    /\ UNCHANGED factoryVars
    /\ UNCHANGED clearVars
    /\ UNCHANGED otherVars

NextMedia == \E payload \in MediaPayloads, other \in MediaSettings, io \in AttemptIo : RepairMedia(payload, other, io)

\* the repair of a fresh response, over the media fields of the recipe
SpecMedia == InitCache /\ [][NextMedia]_vars

-----------------------------------------------------------------------------
(* Properties *)

CacheIsEmpty == \A k \in AllKeys : files[k] = NoFile

\* C1: an enrich call in which cache.get returned a stored payload (a hit) makes no
\* provider invocation at any point of the call
C1_HitMeansNoProviderCall == callHits > 0 => callProv = 0

\* C2: from an empty cache, with a provider that answers non-JSON text every time, the
\* call makes one provider invocation per attempt, never calls cache.set, leaves the
\* cache empty, never returns, and raises exactly when MAX_RETRIES attempts were made
C2_UnparsableExhaustsRetries ==
    (attempt > 0 /\ startEmpty /\ allNotJson) =>
        /\ callProv = attempt
        /\ callSets = 0
        /\ CacheIsEmpty
        /\ pc # "returned"
        /\ (pc = "raised") <=> (attempt = MAX_RETRIES)

\* C2 witness: such a call has run to exhaustion
C2_Witness ==
    /\ pc = "raised"
    /\ startEmpty
    /\ allNotJson
    /\ callProv = MAX_RETRIES
    /\ CacheIsEmpty

\* C3: every entry the orchestrator stores in the cache validates against the
\* RecipeEnrichment schema (a failed attempt writes nothing)
C3_StoredEntriesValidate ==
    \A k \in AllKeys : files[k].st = "json" => Validates(JsonLoad(files[k].text))

\* C4: when every earlier attempt of the running call went to the provider and failed,
\* and the provider would now answer a complete valid payload, the next attempt invokes
\* the provider and returns the recipe with the enrichment built from that payload
C4_RetryReachesValidPayload ==
    [][(/\ pc = "running"
        /\ attempt >= 1
        /\ callProv = attempt
        /\ Answer(provider, totalProv) = Object(FullPayload)
        /\ attempt' = attempt + 1)
       => (/\ callProv' = callProv + 1
           /\ pc' = "returned"
           /\ enrichment'[cur] = RecipeEnrichment(Repair(FullPayload, RecipePool[cur])))]_vars

\* C5: an enrich call whose cache lookup returned a stored payload performs exactly one
\* attempt and ends
C5_NoRetryAfterHit == callHits > 0 => (attempt = 1 /\ pc \in {"returned", "raised"})

SameContent(ra, rb) ==
    /\ ra.title = rb.title
    /\ ra.ingredients = rb.ingredients
    /\ ra.instructions = rb.instructions
    /\ ra.text = rb.text

\* C8: two recipes that agree on title, ingredients, instructions and text get the same
\* key under the same model, whatever their other fields are
C8_KeyIgnoresOtherFields ==
    (keyIn # <<>> /\ SameContent(keyIn[1], keyIn[3]) /\ keyIn[2] = keyIn[4]) =>
        keyOut[1] = keyOut[2]

\* C8 witness: two recipes that differ in url, summary, images and categories only
C8_Witness ==
    /\ keyIn # <<>>
    /\ SameContent(keyIn[1], keyIn[3])
    /\ keyIn[2] = keyIn[4]
    /\ keyIn[1].url # keyIn[3].url
    /\ keyIn[1].summary # keyIn[3].summary
    /\ keyIn[1].images # keyIn[3].images
    /\ keyOut[1] = keyOut[2]

\* C9: recipes that differ in title, ingredients, instructions or text get different keys
\* under the same model, and the same content gets different keys under different
\* models, sanitization included
C9_KeyChangesWithContent ==
    (/\ keyIn # <<>>
     /\ \/ ~SameContent(keyIn[1], keyIn[3]) /\ keyIn[2] = keyIn[4]
        \/ SameContent(keyIn[1], keyIn[3]) /\ keyIn[2] # keyIn[4])
    => keyOut[1] # keyOut[2]

\* C9 witness: two titles that sanitize to the same text, all else equal
C9_Witness ==
    /\ keyIn # <<>>
    /\ keyIn[1].title # keyIn[3].title
    /\ Sanitize(keyIn[1].title) = Sanitize(keyIn[3].title)
    /\ keyIn[1].ingredients = keyIn[3].ingredients
    /\ keyIn[1].instructions = keyIn[3].instructions
    /\ keyIn[1].text = keyIn[3].text
    /\ keyIn[2] = keyIn[4]
    /\ keyOut[1] # keyOut[2]

\* C10: when all attempts fail, the error that reaches the caller is the exception the
\* last attempt raised
C10_LastExceptionSurfaces == pc = "raised" => surfaced = lastErr

\* C11: cache.get returns None for a backing file that is missing, unreadable or not
\* decodable, and an attempt that finds such a file is a cache miss that goes on to
\* invoke the provider
C11_UnusableFileIsAMiss ==
    [][/\ \A r \in RecipeIds, m \in ModelTypes :
             files[GenerateCacheKey(RecipePool[r], m)].st # "json"
                => CacheGet(files, RecipePool[r], m) = NoneResult
       /\ (/\ pc = "running"
           /\ files[GenerateCacheKey(RecipePool[cur], MODEL_TYPE)].st # "json"
           /\ attempt' = attempt + 1)
          => (/\ ~lastHit'
              /\ callHits' = callHits
              /\ callProv' = callProv + 1)]_vars

\* C11 witness: a call that started on an unreadable file, whose second attempt found
\* the file cut short by the first attempt's failed write, and returned from the provider
C11_Witness ==
    /\ nCalls = 1
    /\ ~startEmpty
    /\ attempt = 2
    /\ lastFile = "partial"
    /\ ~lastHit
    /\ callProv = 2
    /\ pc = "returned"

\* C12: an attempt whose cache.set failed (returned False) and whose repaired provider
\* payload is schema-valid returns the recipe with the record built from that payload;
\* nothing is raised
C12_WriteFailureKeepsResult ==
    lastWrite = "failed" =>
        LET data == Repair(Answer(provider, totalProv - 1).data, RecipePool[cur])
        IN  Validates(data) =>
                /\ pc = "returned"
                /\ lastErr = "None"
                /\ surfaced = "None"
                /\ enrichment[cur] = RecipeEnrichment(data)

\* C12 witness: a call returned a record although its only cache write failed
C12_Witness ==
    /\ lastWrite = "failed"
    /\ callSets = 1
    /\ pc = "returned"
    /\ ~lastHit
    /\ enrichment[cur] # NoEnrichment
    /\ files[GenerateCacheKey(RecipePool[cur], MODEL_TYPE)].st = "partial"

\* C13: when the parsed payload lacks protein_level the attached record has protein_level
\* "Medium"; when it lacks prep_time_minutes or total_cooking_time_minutes the record has
\* 30 there; when it lacks one of the three score fields the record has "Moderate" there
C13_ScalarDefaults ==
    repIn # <<>> =>
        /\ ~Has(repIn.payload, "protein_level") =>
               repOut.ok /\ repOut.rec["protein_level"] = "Medium"
        /\ \A f \in {"prep_time_minutes", "total_cooking_time_minutes"} :
               ~Has(repIn.payload, f) => repOut.ok /\ repOut.rec[f] = 30
        /\ \A f \in {"healthiness_score", "ease_of_cooking_score",
                      "indian_ingredient_availability_score"} :
               ~Has(repIn.payload, f) => repOut.ok /\ repOut.rec[f] = "Moderate"

\* C13 witness: a payload lacking protein_level, prep_time_minutes and healthiness_score
\* (and nothing else) got the three defaults
C13_Witness ==
    /\ repIn # <<>>
    /\ required_fields \ DOMAIN repIn.payload
          = {"protein_level", "prep_time_minutes", "healthiness_score"}
    /\ repOut.ok
    /\ repOut.rec["protein_level"] = "Medium"
    /\ repOut.rec["prep_time_minutes"] = 30
    /\ repOut.rec["healthiness_score"] = "Moderate"

\* C14: whatever subset of the fifteen mandatory fields a payload with schema-valid
\* present fields lacks, the attempt returns without an exception, every missing field
\* holds its default and the repaired payload passes schema validation
C14_MissingFieldsAreDefaulted ==
    (repIn # <<>> /\ Validates(repIn.payload @@ FullPayload)) =>
        /\ repOut.called
        /\ repOut.ok
        /\ repOut.err = "None"
        /\ Validates(repOut.wrote)
        /\ \A f \in required_fields \ DOMAIN repIn.payload :
               repOut.rec[f] = DefaultOf(f, RecipePool[repIn.recipe])

\* C14 witness: all fifteen mandatory fields were missing and the attempt returned
C14_Witness ==
    /\ repIn # <<>>
    /\ DOMAIN repIn.payload \cap required_fields = {}
    /\ Cardinality(required_fields) = 15
    /\ repOut.ok
    /\ repOut.rec["categories"] = [default |-> "Not provided"]
    /\ repOut.rec["title"] = RecipePool[repIn.recipe].title

\* C15: when the parsed payload lacks soaking_time_minutes, the attached record has
\* soaking_time_minutes 0
C15_SoakingDefaultsToZero ==
    (repIn # <<>> /\ ~Has(repIn.payload, "soaking_time_minutes") /\ repOut.ok) =>
        /\ Has(repOut.rec, "soaking_time_minutes")
        /\ repOut.rec["soaking_time_minutes"] = 0

\* C16: a payload without meal_prep_guidance does not fail the attempt and the record
\* carries the default guidance (no components, no instructions, no storage info, the
\* generic assembly sentence, one generic tip); guidance the model supplied is kept
C16_GuidanceDefaultOrKept ==
    repIn # <<>> =>
        /\ repOut.ok
        /\ IF Has(repIn.payload, "meal_prep_guidance")
           THEN repOut.rec["meal_prep_guidance"] = repIn.payload["meal_prep_guidance"]
           ELSE LET g == repOut.rec["meal_prep_guidance"]
                IN  /\ DOMAIN g = {"components_to_prep", "prep_instructions", "storage_info",
                                   "final_assembly", "time_saving_tips"}
                    /\ g.components_to_prep = <<>>
                    /\ DOMAIN g.prep_instructions = {}
                    /\ DOMAIN g.storage_info = {}
                    /\ g.final_assembly = "Prepare the recipe as instructed."
                    /\ Len(g.time_saving_tips) = 1

\* C16 witness: a payload without guidance, and lacking mandatory fields too, got the
\* default guidance
C16_Witness ==
    /\ repIn # <<>>
    /\ ~Has(repIn.payload, "meal_prep_guidance")
    /\ required_fields \ DOMAIN repIn.payload # {}
    /\ repOut.ok
    /\ repOut.rec["meal_prep_guidance"].time_saving_tips
          = <<"No specific meal prep guidance available for this recipe.">>

C18_ListsEqualSource ==
    (repIn # <<>> /\ repOut.ok) =>
        /\ repOut.rec["ingredients"] = RecipePool[repIn.recipe].ingredients
        /\ repOut.rec["instructions"] = RecipePool[repIn.recipe].instructions

\* C18 amended: in a record built from a provider response, each of the two lists equals
\* the source recipe's list when the response omits it, and is the response's list,
\* de-escaped, when the response contains it
C18_ListsFromSourceWhenOmitted ==
    (repIn # <<>> /\ repOut.ok) =>
        \A f \in {"ingredients", "instructions"} :
            repOut.rec[f] =
                IF Has(repIn.payload, f)
                THEN [i \in DOMAIN repIn.payload[f] |-> FixUnicode(repIn.payload[f][i])]
                ELSE RecipePool[repIn.recipe][f]

\* C18 witness: the response omitted ingredients and gave instructions; the record has
\* the recipe's ingredients
C18_Witness ==
    /\ repIn # <<>>
    /\ ~Has(repIn.payload, "ingredients")
    /\ Has(repIn.payload, "instructions")
    /\ repOut.ok
    /\ repOut.rec["ingredients"] = RecipePool[repIn.recipe].ingredients
    /\ repOut.rec["ingredients"] # <<>>

\* the elements of seq whose flag is set, in order
RECURSIVE Succeeded(_, _)
Succeeded(seq, flags) ==
    IF seq = <<>> THEN <<>>
    ELSE IF Head(flags) THEN <<Head(seq)>> \o Succeeded(Tail(seq), Tail(flags))
    ELSE Succeeded(Tail(seq), Tail(flags))

\* C19: enrich_recipes calls _enrich_single_recipe once for every recipe of its input,
\* in input order, a failed recipe does not end the loop, and the list it returns is the
\* input's recipes whose call returned, in input order
C19_BatchSkipsFailures ==
    /\ batchPc # "aborted"
    /\ batchPc = "loop" =>
          /\ Len(attempted) \in {batchPos, batchPos + 1}
          /\ Len(attempted) <= Len(recipes)
          /\ attempted = SubSeq(recipes, 1, Len(attempted))
          /\ nCalls = Len(attempted)
    /\ batchPc = "done" =>
          /\ attempted = recipes
          /\ nCalls = Len(recipes)
          /\ Len(outcomes) = Len(recipes)
          /\ enriched_recipes = Succeeded(recipes, outcomes)

\* C19 witness: the first recipe failed after MAX_RETRIES attempts, the second one was
\* enriched, and the batch returned the second one only
C19_Witness ==
    /\ batchPc = "done"
    /\ Len(recipes) = 2
    /\ recipes[1] # recipes[2]
    /\ outcomes = <<FALSE, TRUE>>
    /\ enriched_recipes = <<recipes[2]>>
    /\ enrichment[recipes[2]] # NoEnrichment
    /\ totalProv > MAX_RETRIES

\* C20: constructing the adapter of the selected model raises when that model's token is
\* absent and leaves no enricher object; an enricher that exists has its token, and
\* without one no enrich call and no provider invocation is ever made
C20_NoCredentialNoAdapter ==
    /\ created = "raised" <=> (created # "no" /\ ~tokens[MODEL_TYPE])
    /\ created = "raised" => adapter = "none"
    /\ adapter # "none" => (adapter = MODEL_TYPE /\ tokens[adapter])
    /\ (nCalls > 0 \/ totalProv > 0) => (adapter # "none" /\ tokens[adapter])

\* C20 witness: the Gemini adapter was selected without a Google token while the OpenAI
\* token was set; construction raised and nothing was called
C20_Witness ==
    /\ MODEL_TYPE = "GEMINI"
    /\ ~tokens["GEMINI"]
    /\ tokens["GPT4"]
    /\ created = "raised"
    /\ adapter = "none"
    /\ totalProv = 0

\* C22: after every enrich call that returned, from the provider or from the cache, the
\* attached record's recipe_url is the url of the recipe the call was made for
C22_RecipeUrlIsSourceUrl ==
    pc = "returned" =>
        /\ Has(enrichment[cur], "recipe_url")
        /\ enrichment[cur]["recipe_url"] = RecipePool[cur].url

\* C30: the categories of every attached record hold at least the buckets meal_type,
\* dish_type, cooking_method and region, also when categories was back-filled
C30_CategoriesHaveFourBuckets ==
    (repIn # <<>> /\ repOut.ok) =>
        {"meal_type", "dish_type", "cooking_method", "region"}
            \subseteq DOMAIN repOut.rec["categories"]

\* C26 as stated: after an attempt on a fresh provider response returned, the recipe has
\* an enrichment whose healthiness_score and ease_of_cooking_score are the response's
\* values and whose meal_type_suitability is the response's list
C26_RecordEchoesResponse ==
    (/\ repIn # <<>>
     /\ repOut.ok
     /\ {"healthiness_score", "ease_of_cooking_score", "meal_type_suitability"}
           \subseteq DOMAIN repIn.payload)
    => /\ repOut.rec # NoEnrichment
       /\ repOut.rec["healthiness_score"] = repIn.payload["healthiness_score"]
       /\ repOut.rec["ease_of_cooking_score"] = repIn.payload["ease_of_cooking_score"]
       /\ repOut.rec["meal_type_suitability"] = repIn.payload["meal_type_suitability"]

\* C26 amended: the same, the meal_type_suitability being the response's list with the
\* escaped fraction sequences of each item replaced by their characters
C26_RecordEchoesFixedResponse ==
    (/\ repIn # <<>>
     /\ repOut.ok
     /\ {"healthiness_score", "ease_of_cooking_score", "meal_type_suitability"}
           \subseteq DOMAIN repIn.payload)
    => /\ repOut.rec # NoEnrichment
       /\ repOut.rec["healthiness_score"] = repIn.payload["healthiness_score"]
       /\ repOut.rec["ease_of_cooking_score"] = repIn.payload["ease_of_cooking_score"]
       /\ repOut.rec["meal_type_suitability"]
             = [i \in DOMAIN repIn.payload["meal_type_suitability"] |->
                   FixUnicode(repIn.payload["meal_type_suitability"][i])]

\* C26 witness: a response with non-default scores and an escaped meal type was attached
C26_Witness ==
    /\ repIn # <<>>
    /\ repOut.ok
    /\ repIn.payload = EscapedPayload
    /\ repOut.rec["healthiness_score"] = "Healthy"
    /\ repOut.rec["ease_of_cooking_score"] = "Easy"
    /\ repOut.rec["meal_type_suitability"] = <<"Lunch", "1<half> cup">>

\* C28: once clear() has returned True and until the next set, get returns None for
\* every recipe and model; a set made after the clear is found again by the next get
C28_ClearEmptiesTheCache ==
    /\ clearState = "ok" =>
          /\ \A r \in RecipeIds, m \in ModelTypes : CacheGet(files, RecipePool[r], m) = NoneResult
          /\ got # NoGot => got.res = NoneResult
    /\ (clearState = "okThenSet" /\ got # NoGot /\ stored[got.key].found) =>
          got.res = stored[got.key]

\* an entry written by set was removed by a successful clear and then looked up
C28_Witness ==
    /\ clearState = "ok"
    /\ got # NoGot
    /\ got.key \in clearedKeys
    /\ got.res = NoneResult

\* C27: the file save_enriched_recipes wrote is an array with one object per recipe of
\* the list, in list order, each with the recipe's title and, under "enrichment", the
\* field values of its enrichment (null when it has none); a save that did not raise wrote it
C27_SavedFileMirrorsList ==
    saveCall # <<>> =>
        /\ ~saveCall.raised => saved.st = "json"
        /\ saved.st = "json" =>
              LET back == JsonLoadList(saved.text)
                  list == saveCall.list
              IN  /\ Len(back) = Len(list)
                  /\ \A i \in DOMAIN list :
                        /\ back[i].title = RecipePool[list[i]].title
                        /\ IF enrichment[list[i]] = NoEnrichment
                           THEN back[i].enrichment = NullObject
                           ELSE \A k \in DOMAIN enrichment[list[i]] :
                                    back[i].enrichment[k] = enrichment[list[i]][k]

\* a list of two different recipes, one enriched and one not, was saved
C27_Witness ==
    /\ saveCall # <<>>
    /\ saved.st = "json"
    /\ Len(saveCall.list) = 2
    /\ enrichment[saveCall.list[1]] # NoEnrichment
    /\ enrichment[saveCall.list[2]] = NoEnrichment

\* C29: once both concurrent writers of a key have finished, get returns for that key
\* exactly the payload of the writer that wrote last
C29_LastWriteWins ==
    (writers # <<>> /\ \A w \in {1, 2} : writers[w].pc = "done") =>
        CacheGet(files, RecipePool[writers[1].recipe], raceFile.model)
            = Found(writers[raceFile.last].data)

\* C21: for every backend outcome the Gemini adapter does not raise and returns either
\* text that parses as JSON or a sentinel that begins with the error marker
C21_GeminiNeverRaises ==
    gemIn # <<>> =>
        /\ ~gemOut.raised
        /\ Parseable(gemOut.text) \/ (gemOut.text # <<>> /\ gemOut.text[1] = ErrorMarker)

\* a fenced JSON text came back and the content between the fences was returned
C21_Witness ==
    /\ gemIn # <<>>
    /\ gemIn.kind = "text"
    /\ gemIn.text = <<"fence", "json", "J", "fence">>
    /\ gemOut.text = <<"J">>

\* C23: a list supplied non-empty at construction is the list of the constructed
\* recipe, whatever the text holds
C23_ExplicitListsKept ==
    (ctorIn # <<>> /\ ~ctorOut.raised) =>
        /\ ctorIn.args.ingredients # <<>> => ctorOut.ingredients = ctorIn.args.ingredients
        /\ ctorIn.args.instructions # <<>> => ctorOut.instructions = ctorIn.args.instructions

\* both lists were supplied with a text whose sections would give other lists
C23_Witness ==
    /\ ctorIn # <<>>
    /\ ~ctorOut.raised
    /\ ctorIn.args.ingredients # <<>>
    /\ ctorIn.args.instructions # <<>>
    /\ ctorIn.args.hasText
    /\ ExtractSection(ctorIn.args.text, "Ingredients") \notin {<<>>, ctorIn.args.ingredients}
    /\ ExtractSection(ctorIn.args.text, "How to make") \notin {<<>>, ctorIn.args.instructions}
    /\ ctorOut.ingredients = ctorIn.args.ingredients
    /\ ctorOut.instructions = ctorIn.args.instructions

\* a line that names an item or a step: it holds a word and no section marker
IsItemLine(line) == (\E i \in DOMAIN line : line[i] \in {"a", "b"}) /\ (\A i \in DOMAIN line : line[i] \notin NextSections)

\* the item is what is left of the line after a prefix is taken away
IsSuffixOf(item, line) == Len(item) <= Len(line) /\ item = SubSeq(line, Len(line) - Len(item) + 1, Len(line))

\* C24: a recipe constructed without lists from a text with an Ingredients marker
\* followed by item lines and a How to make marker followed by step lines has non-empty
\* ingredients and instructions, one per line of the section, in source order
C24_SectionsAreExtracted ==
    (/\ ctorIn # <<>>
     /\ ctorIn.shape.marker = "How to make"
     /\ ctorIn.args.ingredients = <<>>
     /\ ctorIn.args.instructions = <<>>
     /\ \A i \in DOMAIN ctorIn.shape.ingLines : IsItemLine(ctorIn.shape.ingLines[i])
     /\ \A i \in DOMAIN ctorIn.shape.stepLines : IsItemLine(ctorIn.shape.stepLines[i]))
    => /\ ~ctorOut.raised
       /\ ctorOut.ingredients # <<>>
       /\ ctorOut.instructions # <<>>
       /\ Len(ctorOut.ingredients) = Len(ctorIn.shape.ingLines)
       /\ Len(ctorOut.instructions) = Len(ctorIn.shape.stepLines)
       /\ \A i \in DOMAIN ctorOut.ingredients :
             IsSuffixOf(ctorOut.ingredients[i], ctorIn.shape.ingLines[i])
       /\ \A i \in DOMAIN ctorOut.instructions :
             IsSuffixOf(ctorOut.instructions[i], ctorIn.shape.stepLines[i])

\* the item C39 expects of a line: the line without surrounding white space and
\* without a leading bullet, dash or single-digit numbering, the rest kept in full
ExpectedItem(line) ==
    LET l == StripLine(line)
    IN  IF l = <<>> THEN <<>>
        ELSE IF l[1] \in {"<bullet>", "-"} THEN StripLine(Tail(l))
        ELSE IF Len(l) >= 2 /\ l[1] \in Digits /\ l[2] = "." THEN StripLine(SubSeq(l, 3, Len(l)))
        ELSE l

\* the items C39 expects of the lines of a section, blank lines giving none
ExpectedItems(lines) == SelectSeq([i \in DOMAIN lines |-> ExpectedItem(lines[i])], LAMBDA item : item # <<>>)

\* no line holds a section marker
NoMarkerIn(lines) == \A i \in DOMAIN lines : \A j \in DOMAIN lines[i] : lines[i][j] \notin NextSections

\* C39: each derived item is its source line without surrounding white space and without
\* a leading bullet or single-digit numbering, the remainder of the line kept in full;
\* blank lines give no item
C39_ItemsKeepTheirLine ==
    (ctorIn # <<>> /\ ctorIn.shape.marker # "" /\ ~ctorOut.raised) =>
        /\ (/\ ctorIn.args.ingredients = <<>>
            /\ ctorIn.shape.marker = "How to make"
            /\ NoMarkerIn(ctorIn.shape.ingLines))
           => ctorOut.ingredients = ExpectedItems(ctorIn.shape.ingLines)
        /\ (ctorIn.args.instructions = <<>> /\ NoMarkerIn(ctorIn.shape.stepLines))
           => ctorOut.instructions = ExpectedItems(ctorIn.shape.stepLines)

\* C38: constructing a Recipe never fails, whatever text is or is not supplied, and
\* from a title alone it yields empty ingredients and empty instructions
C38_ConstructionNeverFails ==
    ctorIn # <<>> =>
        /\ ~ctorOut.raised
        /\ (~ctorIn.args.hasText /\ ctorIn.args.ingredients = <<>> /\ ctorIn.args.instructions = <<>>)
           => (ctorOut.ingredients = <<>> /\ ctorOut.instructions = <<>>)

C33_AdditionalImages ==
    (repIn # <<>> /\ repOut.called /\ repIn.media.images # <<>>) =>
        LET imgs == repIn.media.images
            d == repOut.wrote
        IN  /\ Has(d, "additional_images")
            /\ IF d["image_url"] = imgs[1] /\ Len(imgs) > 1
               THEN d["additional_images"] = Tail(imgs)
               ELSE d["additional_images"] = imgs

\* the primary image is the second listed image: the full list is kept and holds it
C33_Witness ==
    /\ repIn # <<>>
    /\ repOut.called
    /\ repIn.media.images = <<"im1", "im2">>
    /\ repOut.wrote["image_url"] = "im2"
    /\ repOut.wrote["additional_images"] = <<"im1", "im2">>

\* C34: when an enrich call returned a record built from a provider response, a list
\* (ingredients, instructions) the response contains is attached as the model gave it,
\* de-escaped, and the source recipe's list is attached only when the response omits it
C34_ModelListsAttached ==
    (pc = "returned" /\ ~lastHit) =>
        LET payload == Answer(provider, totalProv - 1).data
        IN  \A f \in {"ingredients", "instructions"} :
                IF Has(payload, f)
                THEN enrichment[cur][f] = [i \in DOMAIN payload[f] |-> FixUnicode(payload[f][i])]
                ELSE enrichment[cur][f] = RecipePool[cur][f]

\* the response's ingredients, which differ from the source recipe's, were attached
C34_Witness ==
    /\ pc = "returned"
    /\ ~lastHit
    /\ Has(Answer(provider, totalProv - 1).data, "ingredients")
    /\ enrichment[cur]["ingredients"] = <<"1<half> cup">>
    /\ enrichment[cur]["ingredients"] # RecipePool[cur].ingredients

\* C36: an enrich call changes nothing but the enrichment of the recipe it is called
\* on (every other field of a recipe is constant), and a step of a call that does not
\* return, so a call that raises, leaves that enrichment as it was
C36_OnlyEnrichmentOnSuccess ==
    [][/\ \A r \in RecipeIds : r # cur' => enrichment'[r] = enrichment[r]
       /\ pc' # "returned" => enrichment' = enrichment]_vars

\* a call raised for a recipe that carried the enrichment of an earlier call
C36_Witness ==
    /\ pc = "raised"
    /\ prev.ok
    /\ prev.rid = cur
    /\ enrichment[cur] # NoEnrichment
    /\ enrichment[cur] = prev.rec

\* C37: when a call has raised for a recipe and the provider answers a valid payload at
\* every invocation from then on, the next call for that recipe invokes the provider
\* and returns
C37_FailureLeavesNoTrace ==
    (/\ pc \in {"returned", "raised"}
     /\ prev # NoPrev
     /\ ~prev.ok
     /\ prev.rid = cur
     /\ provider.then \in {"full", "partial"}
     /\ totalProv - callProv >= provider.k)
    => (pc = "returned" /\ callProv >= 1)

\* the pieces a sentinel is built around
SentinelFrame == {ErrorMarker, "\"", "}", ",", "\"original_response\":", "Gemini returned an empty response", "Gemini returned invalid JSON", "Error calling Gemini API: "}

\* pieces that may stand inside a JSON string: no bare double quote, no backslash that
\* starts no escape, no control character
SafeInString == {"fence", "json", "ws", "x", "q-escaped", "J-escaped"}

\* json.loads (strict) accepts the sentinel as an object with an "error" key
DecodableSentinel(t) == t # <<>> /\ t[1] = ErrorMarker /\ \A i \in DOMAIN t : t[i] \in SentinelFrame \cup SafeInString

\* C35: every sentinel the adapter returns is a well-formed JSON object with an "error"
\* key, whatever model output or vendor exception triggered it
C35_SentinelsAreWellFormed ==
    (gemIn # <<>> /\ gemOut.text # <<>> /\ gemOut.text[1] = ErrorMarker) => DecodableSentinel(gemOut.text)

====
